---- MODULE Spec2Model ----
(***************************************************************************)
(* Candidate-information extractor (src/app.py): the segmenter             *)
(* extract_pages_from_docx_with_bold, the extractor                        *)
(* extract_candidate_info_from_page_enhanced and the loop of main that     *)
(* applies the extractor to every section.                                 *)
(*                                                                         *)
(* Text is modelled character by character: a Python str is a sequence of  *)
(* one-character strings, so that strip, split, join and the regular       *)
(* expressions of the source are computed as Python computes them.         *)
(***************************************************************************)
EXTENDS Naturals, Sequences, FiniteSets

\* ------------------------------------------------------------------ bounds

\* Longest generated document (paragraphs) of Spec.
MaxParas == 3

\* Longest generated section (plain lines) of SpecExtract.
MaxLines == 3

\* ------------------------------------------------------- program constants

\* len(current_section) > 5: the minimum content threshold of the fallback.
MinContent == 5

\* ------------------------------------------------------------------- text

UpperLetters ==
  <<"A","B","C","D","E","F","G","H","I","J","K","L","M",
    "N","O","P","Q","R","S","T","U","V","W","X","Y","Z">>

LowerLetters ==
  <<"a","b","c","d","e","f","g","h","i","j","k","l","m",
    "n","o","p","q","r","s","t","u","v","w","x","y","z">>

IsUpper(c) == \E n \in 1..26 : UpperLetters[n] = c

IsLower(c) == \E n \in 1..26 : LowerLetters[n] = c

\* case folding of re.IGNORECASE
ToUpper(c) ==
  IF IsLower(c) THEN UpperLetters[CHOOSE n \in 1..26 : LowerLetters[n] = c] ELSE c

\* \s of the regular expressions, and the characters str.strip() removes
IsSpace(c) == c \in {" ", "\n", "\t"}

\* str.strip()
strip(s) ==
  LET keep == {n \in 1..Len(s) : ~IsSpace(s[n])}
  IN  IF keep = {} THEN <<>>
      ELSE SubSeq(s, CHOOSE a \in keep : \A b \in keep : a <= b,
                     CHOOSE a \in keep : \A b \in keep : a >= b)

\* sep.join(parts)
RECURSIVE join(_, _)
join(parts, sep) ==
  IF parts = <<>> THEN <<>>
  ELSE IF Len(parts) = 1 THEN parts[1]
  ELSE parts[1] \o sep \o join(Tail(parts), sep)

\* str.split('\n'): the pieces between line feeds; '' gives ['']
RECURSIVE split_lines(_)
split_lines(s) ==
  LET nl == {n \in 1..Len(s) : s[n] = "\n"}
  IN  IF nl = {} THEN <<s>>
      ELSE LET p == CHOOSE a \in nl : \A b \in nl : a <= b
           IN  <<SubSeq(s, 1, p - 1)>> \o split_lines(SubSeq(s, p + 1, Len(s)))

\* end of the run of characters of class `cls` that starts at n (n - 1: no run)
RECURSIVE RunEnd(_, _, _)
RunEnd(s, n, cls) ==
  IF n <= Len(s) /\ s[n] \in cls THEN RunEnd(s, n + 1, cls) ELSE n - 1

SpaceChars == {" ", "\n", "\t"}

UpperChars == {UpperLetters[n] : n \in 1..26}

AlphaChars == UpperChars \cup {LowerLetters[n] : n \in 1..26}

\* r'\n\s*\n\s*\n' matched at p: 0 when it does not match, else the position of
\* the last character of the match. Both \s* are greedy and \s contains \n, so
\* the match runs from the line feed at p to the last line feed of the
\* whitespace run that holds p, and needs two line feeds after p in that run.
BlankRunEnd(s, p) ==
  IF p > Len(s) \/ s[p] # "\n" THEN 0
  ELSE LET r  == RunEnd(s, p, SpaceChars)
           nl == {n \in (p + 1)..r : s[n] = "\n"}
       IN  IF Cardinality(nl) < 2 THEN 0
           ELSE CHOOSE a \in nl : \A b \in nl : a >= b

\* re.split(r'\n\s*\n\s*\n', s)
RECURSIVE re_split_blank(_)
re_split_blank(s) ==
  LET starts == {p \in 1..Len(s) : BlankRunEnd(s, p) # 0}
  IN  IF starts = {} THEN <<s>>
      ELSE LET p == CHOOSE a \in starts : \A b \in starts : a <= b
           IN  <<SubSeq(s, 1, p - 1)>>
               \o re_split_blank(SubSeq(s, BlankRunEnd(s, p) + 1, Len(s)))

\* re.match(r'^[A-Z][a-z]+ [A-Z][a-z]+$', line)
IsNameLine(line) ==
  \E k \in 3..(Len(line) - 2) :
    /\ line[k] = " "
    /\ IsUpper(line[1])
    /\ \A n \in 2..(k - 1) : IsLower(line[n])
    /\ IsUpper(line[k + 1])
    /\ \A n \in (k + 2)..Len(line) : IsLower(line[n])

\* --------------------------------------------------------------- extractor

NA == <<"N", "A">>

CSLabels == << <<"C","S",":">> >>

ESLabels == << <<"E","S",":">> >>

NPLabels ==
  << <<"N","O","T","I","C","E"," ","P","E","R","I","O","D",":">>, <<"N","P",":">> >>

RFLLabels == << <<"R","F","L",":">> >>

\* the literal `lit` (upper case) at position p of s, under re.IGNORECASE
LitAt(s, p, lit) ==
  /\ p + Len(lit) - 1 <= Len(s)
  /\ \A n \in 1..Len(lit) : ToUpper(s[p + n - 1]) = lit[n]

\* r'\s+[A-Z]+:' matched at e; cls is AlphaChars under re.IGNORECASE, else
\* UpperChars. \s+ and [A-Z]+ are greedy and no shorter run can succeed.
LabelAfter(s, e, cls) ==
  /\ e <= Len(s)
  /\ IsSpace(s[e])
  /\ LET a == RunEnd(s, e, SpaceChars)
         b == RunEnd(s, a + 1, cls)
     IN  b >= a + 1 /\ b + 1 <= Len(s) /\ s[b + 1] = ":"

\* r'\s*(.+?)(?:\s+[A-Z]+:|$)' matched at q0, the position after the label's
\* colon, re.IGNORECASE: [found, value = group(1)]. It matches exactly when a
\* character follows the colon. \s* takes the whole whitespace run (and gives
\* one character back when nothing follows the run); the lazy group then ends
\* before the first following r'\s+[A-Z]+:', or at the end of the line. The line
\* holds no line feed (it is a piece of split('\n')).
LazyValue(s, q0) ==
  IF q0 > Len(s) THEN [found |-> FALSE, value |-> <<>>]
  ELSE LET q    == RunEnd(s, q0, SpaceChars) + 1
           g    == IF q <= Len(s) THEN q ELSE Len(s)
           ends == {e \in (g + 1)..(Len(s) + 1) :
                      e = Len(s) + 1 \/ LabelAfter(s, e, AlphaChars)}
           e    == CHOOSE a \in ends : \A b \in ends : a <= b
       IN  [found |-> TRUE, value |-> SubSeq(s, g, e - 1)]

\* r'\s*(.+)' matched at q0: the greedy group runs to the end of the line.
GreedyValue(s, q0) ==
  IF q0 > Len(s) THEN [found |-> FALSE, value |-> <<>>]
  ELSE LET q == RunEnd(s, q0, SpaceChars) + 1
           g == IF q <= Len(s) THEN q ELSE Len(s)
       IN  [found |-> TRUE, value |-> SubSeq(s, g, Len(s))]

\* the positions of `line` where one of `labels` stands with a character after it
LabelHits(line, labels) ==
  {p \in 1..Len(line) :
     \E l \in 1..Len(labels) :
       LitAt(line, p, labels[l]) /\ p + Len(labels[l]) <= Len(line)}

\* position after the label of the leftmost hit (re.search is not anchored)
AfterLeftmost(line, labels) ==
  LET hits == LabelHits(line, labels)
      p    == CHOOSE a \in hits : \A b \in hits : a <= b
      l    == CHOOSE m \in 1..Len(labels) :
                LitAt(line, p, labels[m]) /\ p + Len(labels[m]) <= Len(line)
  IN  p + Len(labels[l])

\* re.search(r'<labels>\s*(.+?)(?:\s+[A-Z]+:|$)', line, re.IGNORECASE)
FieldSearch(line, labels) ==
  IF LabelHits(line, labels) = {} THEN [found |-> FALSE, value |-> <<>>]
  ELSE LazyValue(line, AfterLeftmost(line, labels))

\* re.search(r'RFL:\s*(.+)', line, re.IGNORECASE)
RflSearch(line) ==
  IF LabelHits(line, RFLLabels) = {} THEN [found |-> FALSE, value |-> <<>>]
  ELSE GreedyValue(line, AfterLeftmost(line, RFLLabels))

\* re.split(r'\s+[A-Z]+:', content)[0]: no re.IGNORECASE here
RflFirstPiece(content) ==
  LET cuts == {e \in 1..Len(content) : LabelAfter(content, e, UpperChars)}
  IN  IF cuts = {} THEN content
      ELSE SubSeq(content, 1, (CHOOSE a \in cuts : \A b \in cuts : a <= b) - 1)

\* re.match(r'^[A-Z]+:\s', line, re.IGNORECASE)
ClosesRfl(line) ==
  LET b == RunEnd(line, 1, AlphaChars)
  IN  b >= 1 /\ b + 2 <= Len(line) /\ line[b + 1] = ":" /\ IsSpace(line[b + 2])

\* re.match(r'^[A-Z]+:$', line)
IsBareLabel(line) ==
  LET b == RunEnd(line, 1, UpperChars)
  IN  b >= 1 /\ b + 1 = Len(line) /\ line[b + 1] = ":"

Defaults == [CS |-> NA, ES |-> NA, NoticePeriod |-> NA, RFL |-> NA]

\* the locals of extract_from_text_lines before its loop
ScanStart == [extracted |-> Defaults, rfl_lines |-> <<>>, rfl_started |-> FALSE]

\* one iteration of the loop of extract_from_text_lines
ScanLine(st, raw) ==
  LET line == strip(raw)
      cs   == FieldSearch(line, CSLabels)
      es   == FieldSearch(line, ESLabels)
      np   == FieldSearch(line, NPLabels)
      rfl  == RflSearch(line)
      rfl_content == strip(RflFirstPiece(strip(rfl.value)))
  IN  IF line = <<>> THEN st
      ELSE IF cs.found THEN [st EXCEPT !.extracted.CS = strip(cs.value)]
      ELSE IF es.found THEN [st EXCEPT !.extracted.ES = strip(es.value)]
      ELSE IF np.found THEN [st EXCEPT !.extracted.NoticePeriod = strip(np.value)]
      ELSE IF rfl.found
        THEN [st EXCEPT !.rfl_started = TRUE,
                        !.rfl_lines = IF rfl_content # <<>>
                                      THEN Append(@, rfl_content) ELSE @]
      ELSE IF st.rfl_started
        THEN IF ClosesRfl(line) THEN [st EXCEPT !.rfl_started = FALSE]
             ELSE IF ~IsBareLabel(line)
               THEN [st EXCEPT !.rfl_lines = Append(@, line)]
               ELSE st
      ELSE st

RECURSIVE ScanAll(_, _)
ScanAll(st, text_lines) ==
  IF text_lines = <<>> THEN st
  ELSE ScanAll(ScanLine(st, Head(text_lines)), Tail(text_lines))

\* "Combine RFL lines" and the return of extract_from_text_lines
CombineRfl(st) ==
  IF st.rfl_lines # <<>>
  THEN [st.extracted EXCEPT !.RFL = strip(join(st.rfl_lines, <<" ">>))]
  ELSE st.extracted

extract_from_text_lines(text_lines) == CombineRfl(ScanAll(ScanStart, text_lines))

\* lines = page_text.strip().split('\n')
PageLines(page_text) == split_lines(strip(page_text))

\* bold_lines = bold_text.strip().split('\n') if bold_text else []
BoldLines(bold_text) ==
  IF bold_text # <<>> THEN split_lines(strip(bold_text)) ELSE <<>>

\* the result dictionary before extraction, with the first name
InitialResult(page_text) ==
  LET first_line == strip(PageLines(page_text)[1])
  IN  [FirstName    |-> IF first_line # <<>> THEN first_line ELSE NA,
       CS           |-> NA,
       ES           |-> NA,
       NoticePeriod |-> NA,
       RFL          |-> NA,
       Summary      |-> strip(page_text)]

BoldTag == <<" ", "[", "B", "O", "L", "D", "]">>

FieldNames == {"CS", "ES", "NoticePeriod", "RFL"}

\* one field of the priority loop
MergedFieldRegularFirst(regular, bold) ==
  IF regular # NA THEN regular
  ELSE IF bold # NA THEN bold \o BoldTag
  ELSE NA

MergedField(regular, bold) ==
  IF bold # NA THEN bold \o BoldTag
  ELSE IF regular # NA THEN regular
  ELSE NA

\* "PRIORITY LOGIC": the loop over the four fields
Merge(result, regular_extraction, bold_extraction) ==
  [result EXCEPT
     !.CS           = MergedField(regular_extraction.CS, bold_extraction.CS),
     !.ES           = MergedField(regular_extraction.ES, bold_extraction.ES),
     !.NoticePeriod = MergedField(regular_extraction.NoticePeriod,
                                  bold_extraction.NoticePeriod),
     !.RFL          = MergedField(regular_extraction.RFL, bold_extraction.RFL)]

extract_candidate_info_from_page_enhanced(page_text, bold_text) ==
  Merge(InitialResult(page_text),
        extract_from_text_lines(PageLines(page_text)),
        IF strip(bold_text) # <<>>
        THEN extract_from_text_lines(BoldLines(bold_text))
        ELSE Defaults)

\* ----------------------------------------------------------------- inputs

\* A paragraph of the document is its sequence of runs, each a text and a bold
\* flag; paragraph.text is the concatenation of the run texts. A line break
\* inside a paragraph reads as "\n" in paragraph.text.
Run(text, bold) == [text |-> text, bold |-> bold]

Plain(text) == <<Run(text, FALSE)>>

Bold(text) == <<Run(text, TRUE)>>

RECURSIVE ParagraphText(_)
ParagraphText(paragraph) ==
  IF paragraph = <<>> THEN <<>>
  ELSE paragraph[1].text \o ParagraphText(Tail(paragraph))

\* white space only
BlankPara == Plain(<<" ", " ">>)

\* "Ann Lee"
NamePara == Plain(<<"A", "n", "n", " ", "L", "e", "e">>)

\* "CS: 7", bold
BoldCsPara == Bold(<<"C", "S", ":", " ", "7">>)

\* "ES: 5", a line break, "x y", a line break, "RFL: z"
SoftBreakPara == Plain(<<"E", "S", ":", " ", "5", "\n", "x", " ", "y", " ", "\n", "R", "F", "L", ":", " ", "z">>)

\* "p", three line breaks, "NP: 2"
TripleBreakPara == Plain(<<"p", "\n", "\n", "\n", "N", "P", ":", " ", "2">>)

ParaPool == {BlankPara, NamePara, BoldCsPara, SoftBreakPara, TripleBreakPara}

\* The end-to-end scenario: two candidates separated by three blank paragraphs.
EndToEndDocument ==
  << Plain(<<"J", "O", "H", "N", " ", "D", "O", "E">>),
     Plain(<<"C", "S", ":", " ", "5", "0", "0", "k">>),
     Plain(<<"E", "S", ":", " ", "7", "0", "0", "k">>),
     Plain(<<"N", "O", "T", "I", "C", "E", " ", "P", "E", "R", "I", "O", "D", ":", " ", "3", "0", " ", "d", "a", "y", "s">>),
     Plain(<<"R", "F", "L", ":", " ", "b", "e", "t", "t", "e", "r", " ", "o", "p", "p", "o", "r", "t", "u", "n", "i", "t", "y">>),
     Plain(<<>>),
     Plain(<<>>),
     Plain(<<>>),
     Plain(<<"J", "A", "N", "E", " ", "S", "M", "I", "T", "H">>),
     Plain(<<"C", "S", ":", " ", "6", "0", "0", "k">>) >>

\* Two candidates, no blank paragraph; the second name is the seventh line and
\* the second candidate's salary is bold.
TwoCandidates ==
  << Plain(<<"J", "o", "h", "n", " ", "D", "o", "e">>),
     Plain(<<"C", "S", ":", " ", "1", "0">>),
     Plain(<<"E", "S", ":", " ", "1", "2">>),
     Plain(<<"N", "P", ":", " ", "3", "0", " ", "d", "a", "y", "s">>),
     Plain(<<"R", "F", "L", ":", " ", "g", "r", "o", "w", "t", "h">>),
     Plain(<<"a", "n", "d", " ", "p", "a", "y">>),
     Plain(<<"J", "a", "n", "e", " ", "S", "m", "i", "t", "h">>),
     <<Run(<<"C", "S", ":", " ", "2", "0">>, TRUE), Run(<<" ", "n", "e", "t">>, FALSE)>> >>

\* The same with the second name as the sixth line: five lines precede it.
TwoCandidatesShort ==
  << Plain(<<"J", "o", "h", "n", " ", "D", "o", "e">>),
     Plain(<<"C", "S", ":", " ", "1", "0">>),
     Plain(<<"E", "S", ":", " ", "1", "2">>),
     Plain(<<"N", "P", ":", " ", "3", "0", " ", "d", "a", "y", "s">>),
     Plain(<<"R", "F", "L", ":", " ", "g", "r", "o", "w", "t", "h">>),
     Plain(<<"J", "a", "n", "e", " ", "S", "m", "i", "t", "h">>),
     Bold(<<"C", "S", ":", " ", "2", "0">>) >>

ScenarioDocuments == {EndToEndDocument, TwoCandidates, TwoCandidatesShort}

\* every sequence over S of length at most n
RECURSIVE SeqsUpTo(_, _)
SeqsUpTo(S, n) ==
  IF n = 0 THEN {<<>>}
  ELSE LET shorter == SeqsUpTo(S, n - 1)
       IN  shorter \cup {Append(s, x) : s \in shorter, x \in S}

Documents == SeqsUpTo(ParaPool, MaxParas) \cup ScenarioDocuments

\* Lines of the sections handed to the extractor in SpecExtract.
LinePool ==
  { (* CS: 10 *)
    <<"C", "S", ":", " ", "1", "0">>,
    (* CS: 500k *)
    <<"C", "S", ":", " ", "5", "0", "0", "k">>,
    (* CS: 500k ES: 600k *)
    <<"C", "S", ":", " ", "5", "0", "0", "k", " ", "E", "S", ":", " ", "6", "0", "0", "k">>,
    (* ES: 5 CS: 6 *)
    <<"E", "S", ":", " ", "5", " ", "C", "S", ":", " ", "6">>,
    (* RFL: relocation *)
    <<"R", "F", "L", ":", " ", "r", "e", "l", "o", "c", "a", "t", "i", "o", "n">>,
    (* for family reasons *)
    <<"f", "o", "r", " ", "f", "a", "m", "i", "l", "y", " ", "r", "e", "a", "s", "o", "n", "s">>,
    (* NOTES: x *)
    <<"N", "O", "T", "E", "S", ":", " ", "x">>,
    (* FOO: *)
    <<"F", "O", "O", ":">> }

\* Emphasized text handed to the extractor in SpecExtract.
BoldTexts ==
  { <<>>,
    (* CS: 12, new line, np: 1 wk *)
    <<"C", "S", ":", " ", "1", "2", "\n", "n", "p", ":", " ", "1", " ", "w", "k">> }

PageTexts == {join(ls, <<"\n">>) : ls \in SeqsUpTo(LinePool, MaxLines) \ {<<>>}}

\* ------------------------------------------------------------------ state

VARIABLES
  pc,                 \* position in the program
  document,           \* doc.paragraphs
  p_idx,              \* paragraphs read so far
  all_paragraphs,     \* retained paragraph texts
  all_bold_text,      \* bold texts of the retained paragraphs that have one
  pages,              \* section texts
  lines,              \* full_text.split('\n') of the fallback pass
  i,                  \* lines scanned so far by the fallback pass
  current_section,    \* lines of the section the fallback pass is building
  result_sections,    \* what extract_pages_from_docx_with_bold returns
  s_idx,              \* sections main has processed
  extracted_data,     \* the records of main
  page_text,          \* extractor: its first argument
  bold_text,          \* extractor: its second argument
  text_lines,         \* extract_from_text_lines: its argument
  k,                  \* extract_from_text_lines: lines scanned so far
  scan,               \* extract_from_text_lines: extracted, rfl_lines, rfl_started
  regular_extraction, \* extractor: result of the pass over the plain lines
  bold_extraction,    \* extractor: result of the pass over the bold lines
  result              \* extractor: the record

segmenterVars ==
  <<document, p_idx, all_paragraphs, all_bold_text, pages, lines, i,
    current_section, result_sections, s_idx, extracted_data>>

extractorVars ==
  <<page_text, bold_text, text_lines, k, scan, regular_extraction,
    bold_extraction, result>>

vars == <<pc, segmenterVars, extractorVars>>

\* ---------------------------------------------------------------- segmenter

\* extract_bold_text_from_paragraph
RECURSIVE BoldParts(_)
BoldParts(runs) ==
  IF runs = <<>> THEN <<>>
  ELSE (IF runs[1].bold /\ strip(runs[1].text) # <<>>
        THEN <<strip(runs[1].text)>> ELSE <<>>) \o BoldParts(Tail(runs))

extract_bold_text_from_paragraph(paragraph) == join(BoldParts(paragraph), <<" ">>)

\* full_text = '\n'.join(all_paragraphs)
FullText == join(all_paragraphs, <<"\n">>)

\* full_bold_text = '\n'.join(all_bold_text)
FullBoldText == join(all_bold_text, <<"\n">>)

\* [section.strip() for section in sections if section.strip()]
RECURSIVE StripNonEmpty(_)
StripNonEmpty(sections) ==
  IF sections = <<>> THEN <<>>
  ELSE (IF strip(sections[1]) # <<>> THEN <<strip(sections[1])>> ELSE <<>>)
       \o StripNonEmpty(Tail(sections))

\* the test of the fallback pass for "this line starts a new section"
IsBoundaryAtFive(idx, section, line) ==
  /\ idx > 0
  /\ Len(section) >= MinContent
  /\ IsNameLine(strip(line))

IsBoundary(idx, section, line) ==
  /\ idx > 0
  /\ Len(section) > MinContent
  /\ IsNameLine(strip(line))

\* the loop over doc.paragraphs, one paragraph
ReadParagraph ==
  /\ pc = "read"
  /\ p_idx < Len(document)
  /\ LET paragraph == document[p_idx + 1]
         text      == strip(ParagraphText(paragraph))
         bold      == extract_bold_text_from_paragraph(paragraph)
     IN  /\ all_paragraphs' = IF text # <<>> THEN Append(all_paragraphs, text)
                              ELSE all_paragraphs
         /\ all_bold_text' = IF text # <<>> /\ bold # <<>>
                             THEN Append(all_bold_text, bold)
                             ELSE all_bold_text
  /\ p_idx' = p_idx + 1
  /\ UNCHANGED <<pc, document, pages, lines, i, current_section,
                 result_sections, s_idx, extracted_data, extractorVars>>

\* the split at blank runs and the choice of the fallback pass
SplitBlankRuns ==
  /\ pc = "read"
  /\ p_idx = Len(document)
  /\ LET split == StripNonEmpty(re_split_blank(FullText))
     IN  IF Len(split) = 1
         THEN /\ pc' = "fallback"
              /\ lines' = split_lines(FullText)
              /\ pages' = <<>>
         ELSE /\ pc' = "assemble"
              /\ lines' = lines
              /\ pages' = split
  /\ UNCHANGED <<document, p_idx, all_paragraphs, all_bold_text, i,
                 current_section, result_sections, s_idx, extracted_data,
                 extractorVars>>

\* current_section after a line is taken: a line that closes the section opens
\* the next one
SectionAfterDropBoundary(section, line, closes) ==
  IF closes THEN <<>> ELSE Append(section, line)

SectionAfter(section, line, closes) ==
  IF closes THEN <<line>> ELSE Append(section, line)

\* one iteration of the loop of the fallback pass
FallbackStep ==
  /\ pc = "fallback"
  /\ i < Len(lines)
  /\ LET line == strip(lines[i + 1])
     IN  IF line = <<>>
         THEN UNCHANGED <<pages, current_section>>
         ELSE IF IsBoundary(i, current_section, line) /\ current_section # <<>>
         THEN /\ pages' = Append(pages, join(current_section, <<"\n">>))
              /\ current_section' = SectionAfter(current_section, line, TRUE)
         ELSE /\ pages' = pages
              /\ current_section' = SectionAfter(current_section, line, FALSE)
  /\ i' = i + 1
  /\ UNCHANGED <<pc, document, p_idx, all_paragraphs, all_bold_text, lines,
                 result_sections, s_idx, extracted_data, extractorVars>>

\* "Add the last section"
FlushedPagesDropLast(closed, section) == closed

FlushedPages(closed, section) ==
  IF section # <<>> THEN Append(closed, join(section, <<"\n">>)) ELSE closed

FallbackFlush ==
  /\ pc = "fallback"
  /\ i = Len(lines)
  /\ pages' = FlushedPages(pages, current_section)
  /\ pc' = "assemble"
  /\ UNCHANGED <<document, p_idx, all_paragraphs, all_bold_text, lines, i,
                 current_section, result_sections, s_idx, extracted_data,
                 extractorVars>>

\* the bold text that goes with section j of `texts`
SectionBoldText(texts, j) == FullBoldText

\* "Now create sections with corresponding bold text", the return, and the
\* test of main for an empty result
AssembleSections ==
  /\ pc = "assemble"
  /\ result_sections' =
       [j \in 1..Len(pages) |->
          [regular_text   |-> pages[j],
           bold_text      |-> SectionBoldText(pages, j),
           section_number |-> j]]
  /\ pc' = IF pages = <<>> THEN "done" ELSE "main"
  /\ UNCHANGED <<document, p_idx, all_paragraphs, all_bold_text, pages, lines,
                 i, current_section, s_idx, extracted_data, extractorVars>>

\* the record main appends for a section, if any
SectionRecordsFirstLineSummary(section) ==
  IF strip(section.regular_text) # <<>>
  THEN <<[extract_candidate_info_from_page_enhanced(section.regular_text,
                                                    section.bold_text)
            EXCEPT !.Summary = PageLines(section.regular_text)[1]]>>
  ELSE <<>>

SectionRecords(section) ==
  IF strip(section.regular_text) # <<>>
  THEN <<extract_candidate_info_from_page_enhanced(section.regular_text,
                                                   section.bold_text)>>
  ELSE <<>>

\* one iteration of the loop of main over the sections
ExtractSection ==
  /\ pc = "main"
  /\ s_idx < Len(result_sections)
  /\ extracted_data' = extracted_data \o SectionRecords(result_sections[s_idx + 1])
  /\ s_idx' = s_idx + 1
  /\ UNCHANGED <<pc, document, p_idx, all_paragraphs, all_bold_text, pages,
                 lines, i, current_section, result_sections, extractorVars>>

\* the end of the loop of main
Finish ==
  /\ pc = "main"
  /\ s_idx = Len(result_sections)
  /\ pc' = "done"
  /\ UNCHANGED <<segmenterVars, extractorVars>>

ExtractorIdle ==
  /\ page_text = <<>>
  /\ bold_text = <<>>
  /\ text_lines = <<>>
  /\ k = 0
  /\ scan = ScanStart
  /\ regular_extraction = Defaults
  /\ bold_extraction = Defaults
  /\ result = InitialResult(<<>>)

Init ==
  /\ pc = "read"
  /\ document \in Documents
  /\ p_idx = 0
  /\ all_paragraphs = <<>>
  /\ all_bold_text = <<>>
  /\ pages = <<>>
  /\ lines = <<>>
  /\ i = 0
  /\ current_section = <<>>
  /\ result_sections = <<>>
  /\ s_idx = 0
  /\ extracted_data = <<>>
  /\ ExtractorIdle

Next ==
  \/ ReadParagraph
  \/ SplitBlankRuns
  \/ FallbackStep
  \/ FallbackFlush
  \/ AssembleSections
  \/ ExtractSection
  \/ Finish

Spec == Init /\ [][Next]_vars

\* ---------------------------------------------- the extractor, step by step

\* one iteration of the loop of extract_from_text_lines
ScanStep ==
  /\ pc \in {"scan_regular", "scan_bold"}
  /\ k < Len(text_lines)
  /\ scan' = ScanLine(scan, text_lines[k + 1])
  /\ k' = k + 1
  /\ UNCHANGED <<pc, segmenterVars, page_text, bold_text, text_lines,
                 regular_extraction, bold_extraction, result>>

\* the return of the pass over the plain lines, and "if bold_text.strip()"
ReturnRegular ==
  /\ pc = "scan_regular"
  /\ k = Len(text_lines)
  /\ regular_extraction' = CombineRfl(scan)
  /\ IF strip(bold_text) # <<>>
     THEN /\ pc' = "scan_bold"
          /\ text_lines' = BoldLines(bold_text)
          /\ k' = 0
          /\ scan' = ScanStart
     ELSE /\ pc' = "merge"
          /\ UNCHANGED <<text_lines, k, scan>>
  /\ UNCHANGED <<segmenterVars, page_text, bold_text, bold_extraction, result>>

\* the return of the pass over the bold lines
ReturnBold ==
  /\ pc = "scan_bold"
  /\ k = Len(text_lines)
  /\ bold_extraction' = CombineRfl(scan)
  /\ pc' = "merge"
  /\ UNCHANGED <<segmenterVars, page_text, bold_text, text_lines, k, scan,
                 regular_extraction, result>>

\* the priority loop and the return of the extractor
MergeFields ==
  /\ pc = "merge"
  /\ result' = Merge(result, regular_extraction, bold_extraction)
  /\ pc' = "returned"
  /\ UNCHANGED <<segmenterVars, page_text, bold_text, text_lines, k, scan,
                 regular_extraction, bold_extraction>>

SegmenterIdle ==
  /\ document = <<>>
  /\ p_idx = 0
  /\ all_paragraphs = <<>>
  /\ all_bold_text = <<>>
  /\ pages = <<>>
  /\ lines = <<>>
  /\ i = 0
  /\ current_section = <<>>
  /\ result_sections = <<>>
  /\ s_idx = 0
  /\ extracted_data = <<>>

InitExtract ==
  /\ pc = "scan_regular"
  /\ SegmenterIdle
  /\ page_text \in PageTexts
  /\ bold_text \in BoldTexts
  /\ text_lines = PageLines(page_text)
  /\ k = 0
  /\ scan = ScanStart
  /\ regular_extraction = Defaults
  /\ bold_extraction = Defaults
  /\ result = InitialResult(page_text)

NextExtract ==
  \/ ScanStep
  \/ ReturnRegular
  \/ ReturnBold
  \/ MergeFields

SpecExtract == InitExtract /\ [][NextExtract]_vars

\* ------------------------------------------------- properties: the segmenter

RECURSIVE Flatten(_)
Flatten(seqs) ==
  IF seqs = <<>> THEN <<>> ELSE seqs[1] \o Flatten(Tail(seqs))

RECURSIVE NonBlankTrimmed(_)
NonBlankTrimmed(ls) ==
  IF ls = <<>> THEN <<>>
  ELSE (IF strip(ls[1]) # <<>> THEN <<strip(ls[1])>> ELSE <<>>)
       \o NonBlankTrimmed(Tail(ls))

\* the segmenter has returned
Segmented == pc \in {"main", "done"}

\* the lines of section j
SectionLines(j) == split_lines(result_sections[j].regular_text)

AllSectionLines == Flatten([j \in 1..Len(result_sections) |-> SectionLines(j)])

\* the trimmed texts of the non-blank paragraphs of the document
RetainedTexts ==
  NonBlankTrimmed([n \in 1..Len(document) |-> ParagraphText(document[n])])

\* no retained paragraph holds a line break
NoLineBreaks ==
  \A n \in 1..Len(RetainedTexts) :
    \A m \in 1..Len(RetainedTexts[n]) : RetainedTexts[n][m] # "\n"

\* the name-pattern fallback pass has run (full_text is not empty when it does)
FallbackTaken == lines # <<>>

\* C1 as stated: once the segmenter has returned, the lines of all sections
\* in section order are exactly the retained paragraph texts, and no section is
\* empty.
C1_SectionsPartitionParagraphs ==
  Segmented =>
    /\ AllSectionLines = RetainedTexts
    /\ \A j \in 1..Len(result_sections) : result_sections[j].regular_text # <<>>

\* C1, amended: once the segmenter has returned, the non-blank trimmed lines
\* of all sections in section order are exactly the non-blank trimmed lines of
\* the retained paragraph texts (a paragraph with line breaks counts one line
\* per piece), no section is empty, and when no retained paragraph holds a line
\* break the section lines are exactly the retained paragraph texts.
C1_SectionsPartitionLines ==
  Segmented =>
    /\ NonBlankTrimmed(AllSectionLines)
         = NonBlankTrimmed(Flatten([n \in 1..Len(RetainedTexts) |->
                                      split_lines(RetainedTexts[n])]))
    /\ \A j \in 1..Len(result_sections) :
         strip(result_sections[j].regular_text) # <<>>
    /\ NoLineBreaks => AllSectionLines = RetainedTexts

\* C1 witness: the fallback pass has cut a document of eight one-line
\* paragraphs into two sections.
C1_Witness ==
  /\ pc = "done"
  /\ NoLineBreaks
  /\ FallbackTaken
  /\ Len(RetainedTexts) = 8
  /\ Len(result_sections) = 2

\* paragraph n of the document is blank
IsBlankParagraph(n) == strip(ParagraphText(document[n])) = <<>>

\* C2 as stated: a run of two or more blank paragraphs between two non-blank
\* paragraphs ends a section at the paragraph before the run and starts the next
\* section at the paragraph after it (documents without line breaks inside
\* paragraphs); and the end-to-end document gives two sections and two records,
\* JOHN DOE and JANE SMITH with CS 600k and the other fields NA.
C2_BlankRunIsBoundary ==
  pc = "done" =>
    /\ NoLineBreaks =>
         \A a \in 1..Len(document) : \A b \in (a + 3)..Len(document) :
           ( /\ ~IsBlankParagraph(a)
             /\ ~IsBlankParagraph(b)
             /\ \A n \in (a + 1)..(b - 1) : IsBlankParagraph(n) )
           => \E j \in 2..Len(result_sections) :
                /\ SectionLines(j)[1] = strip(ParagraphText(document[b]))
                /\ SectionLines(j - 1)[Len(SectionLines(j - 1))]
                     = strip(ParagraphText(document[a]))
    /\ document = EndToEndDocument =>
         /\ Len(result_sections) = 2
         /\ Len(extracted_data) = 2
         /\ extracted_data[1].FirstName = <<"J", "O", "H", "N", " ", "D", "O", "E">>
         /\ extracted_data[2].FirstName = <<"J", "A", "N", "E", " ", "S", "M", "I", "T", "H">>
         /\ extracted_data[2].CS = <<"6", "0", "0", "k">>
         /\ extracted_data[2].ES = NA
         /\ extracted_data[2].NoticePeriod = NA
         /\ extracted_data[2].RFL = NA

\* C7: main holds one record per processed section, in section order, all
\* sections are processed at the end, and the Summary of record j is the
\* newline-join of the lines of section j.
C7_OneRecordPerSection ==
  /\ Len(extracted_data) = s_idx
  /\ pc = "done" => s_idx = Len(result_sections)
  /\ \A j \in 1..Len(extracted_data) :
       extracted_data[j].Summary = join(SectionLines(j), <<"\n">>)

\* C7 witness: two records, the first from a section where no label matched,
\* the second from a section with a notice period.
C7_Witness ==
  /\ pc = "done"
  /\ Len(extracted_data) = 2
  /\ extracted_data[1].CS = NA
  /\ extracted_data[1].ES = NA
  /\ extracted_data[1].NoticePeriod = NA
  /\ extracted_data[1].RFL = NA
  /\ extracted_data[2].NoticePeriod # NA

\* the retained paragraphs of the document
RECURSIVE RetainedParagraphs(_)
RetainedParagraphs(doc) ==
  IF doc = <<>> THEN <<>>
  ELSE (IF strip(ParagraphText(doc[1])) # <<>> THEN <<doc[1]>> ELSE <<>>)
       \o RetainedParagraphs(Tail(doc))

\* lines in the sections before section j
RECURSIVE LinesBefore(_)
LinesBefore(j) ==
  IF j = 1 THEN 0 ELSE LinesBefore(j - 1) + Len(SectionLines(j - 1))

\* the bold text of the paragraphs of section j alone (one line per paragraph)
OwnBoldText(j) ==
  LET own == [n \in 1..Len(SectionLines(j)) |->
                extract_bold_text_from_paragraph(
                  RetainedParagraphs(document)[LinesBefore(j) + n])]
  IN  join(NonBlankTrimmed(own), <<"\n">>)

\* C8 as stated: the emphasized text handed to the extractor for a section is
\* that of the section's own paragraphs, and the record of the section is the
\* extractor's result on the section's own plain and emphasized text (documents
\* without line breaks inside paragraphs).
C8_SectionIndependence ==
  (pc = "done" /\ NoLineBreaks) =>
    \A j \in 1..Len(result_sections) :
      /\ result_sections[j].bold_text = OwnBoldText(j)
      /\ extracted_data[j] =
           extract_candidate_info_from_page_enhanced(
             result_sections[j].regular_text, OwnBoldText(j))

\* C9: when the document has no retained paragraph the segmenter returns no
\* section and main holds no record; when it has one, the segmenter returns at
\* least one section.
C9_EmptyIffNothingRetained ==
  pc = "done" =>
    /\ RetainedTexts = <<>> => (result_sections = <<>> /\ extracted_data = <<>>)
    /\ RetainedTexts # <<>> => Len(result_sections) >= 1

\* C9 witness: a document of blank paragraphs only has been processed.
C9_Witness ==
  /\ pc = "done"
  /\ Len(document) >= 2
  /\ RetainedTexts = <<>>
  /\ result_sections = <<>>

\* C10, the sections of the fallback pass: every closed section other than the
\* last holds more than MinContent lines, every section other than the first
\* begins with a name-shaped line.
FallbackSectionsShape ==
  FallbackTaken =>
    /\ \A j \in 1..Len(pages) :
         (j < Len(pages) \/ pc = "fallback")
           => Len(split_lines(pages[j])) >= MinContent + 1
    /\ \A j \in 2..Len(pages) : IsNameLine(split_lines(pages[j])[1])
    /\ (pc = "fallback" /\ pages # <<>>) => IsNameLine(current_section[1])

\* C10, one step of the fallback pass: the line closes the current section
\* exactly when it is not the first line, is name-shaped and the section holds
\* more than MinContent lines; it then becomes the first line of the new section.
FallbackStepCloses ==
  (pc = "fallback" /\ i' = i + 1) =>
    LET line == strip(lines[i + 1])
    IN  /\ (pages' # pages)
             <=> (i > 0 /\ IsNameLine(line) /\ Len(current_section) > MinContent)
        /\ (pages' # pages) =>
             /\ pages' = Append(pages, join(current_section, <<"\n">>))
             /\ current_section' = <<line>>
        /\ (pages' = pages /\ line # <<>>) =>
             current_section' = Append(current_section, line)

\* C10: in the fallback pass a line closes the current section and opens the
\* next one exactly when it is not the first line of the document, is
\* name-shaped and the current section holds more than 5 lines; so every section
\* but the last holds at least 6 lines, every section but the first begins with
\* a name-shaped line, and the boundary line is kept.
C10_FallbackBoundaries == [][FallbackStepCloses]_vars /\ []FallbackSectionsShape

\* C10 witness: the fallback pass has closed a section at a name-shaped line.
C10_Witness ==
  /\ pc = "fallback"
  /\ Len(pages) = 1
  /\ Len(current_section) = 1
  /\ IsNameLine(current_section[1])

\* ------------------------------------------------- properties: the extractor

Scanning == pc \in {"scan_regular", "scan_bold"}

\* `line` is one of the lines of `text`
HasLine(text, line) ==
  \E n \in 1..Len(split_lines(text)) : split_lines(text)[n] = line

\* C3 as stated: in the returned record each of CS, ES, Notice Period and RFL
\* is the value extracted from the emphasized lines when that is not NA, else
\* the value extracted from the plain lines; plain CS: 10 with emphasized
\* CS: 12 gives CS 12.
C3_EmphasisWinsVerbatim ==
  pc = "returned" =>
    /\ \A f \in FieldNames :
         result[f] = IF bold_extraction[f] # NA THEN bold_extraction[f]
                     ELSE regular_extraction[f]
    /\ (HasLine(page_text, <<"C", "S", ":", " ", "1", "0">>) /\ HasLine(bold_text, <<"C", "S", ":", " ", "1", "2">>))
         => result.CS = <<"1", "2">>

\* C3, amended: in the returned record each of CS, ES, Notice Period and RFL
\* is the value extracted from the emphasized lines followed by " [BOLD]" when
\* that value is not NA, else the value extracted from the plain lines (NA when
\* there is none); plain CS: 10 with emphasized CS: 12 gives CS "12 [BOLD]".
C3_EmphasisWinsTagged ==
  pc = "returned" =>
    /\ \A f \in FieldNames :
         result[f] = IF bold_extraction[f] # NA
                     THEN bold_extraction[f] \o <<" ", "[", "B", "O", "L", "D", "]">>
                     ELSE regular_extraction[f]
    /\ (HasLine(page_text, <<"C", "S", ":", " ", "1", "0">>) /\ HasLine(bold_text, <<"C", "S", ":", " ", "1", "2">>))
         => result.CS = <<"1", "2", " ", "[", "B", "O", "L", "D", "]">>

\* C3 witness: the plain lines gave CS 10 and an expected salary, the
\* emphasized lines gave CS 12 and no expected salary.
C3_Witness ==
  /\ pc = "returned"
  /\ regular_extraction.CS = <<"1", "0">>
  /\ bold_extraction.CS = <<"1", "2">>
  /\ regular_extraction.ES # NA
  /\ bold_extraction.ES = NA
  /\ result.ES = regular_extraction.ES

FieldLabels == CSLabels \o ESLabels \o NPLabels

AllLabels == FieldLabels \o RFLLabels

\* the line begins, in any case, with one of `labels`
BeginsWith(line, labels) ==
  \E l \in 1..Len(labels) : LitAt(strip(line), 1, labels[l])

\* the line has the label shape [A-Z]+: at its start, or begins with CS:, ES:,
\* NP: or NOTICE PERIOD:
IsLabelLine(line) ==
  \/ LET b == RunEnd(strip(line), 1, UpperChars)
     IN  b >= 1 /\ b + 1 <= Len(strip(line)) /\ strip(line)[b + 1] = ":"
  \/ BeginsWith(line, FieldLabels)

\* The capture as C4 states it, over the lines scanned so far: a line that
\* begins with RFL: opens it with its first fragment, a label line closes it,
\* any other line is appended while it is open.
RECURSIVE StatedCapture(_)
StatedCapture(ls) ==
  IF ls = <<>> THEN [rfl_lines |-> <<>>, open |-> FALSE]
  ELSE LET before == StatedCapture(SubSeq(ls, 1, Len(ls) - 1))
           line   == strip(ls[Len(ls)])
       IN  IF line = <<>> THEN before
           ELSE IF BeginsWith(line, RFLLabels) /\ RflSearch(line).found
             THEN [rfl_lines |->
                     Append(before.rfl_lines,
                            strip(RflFirstPiece(strip(RflSearch(line).value)))),
                   open |-> TRUE]
           ELSE IF IsLabelLine(line) THEN [before EXCEPT !.open = FALSE]
           ELSE IF before.open
             THEN [before EXCEPT !.rfl_lines = Append(@, line)]
           ELSE before

\* C4 as stated: while the lines are scanned, the captured RFL fragments are
\* those of the stated capture (opened by an RFL: line, closed by the next
\* label line, CS:, ES:, NP: and NOTICE PERIOD: lines included); and the lines
\* RFL: relocation / for family reasons / CS: 500k give RFL "relocation for
\* family reasons" and CS 500k.
C4_LabelClosesCapture ==
  /\ Scanning =>
       scan.rfl_lines = StatedCapture(SubSeq(text_lines, 1, k)).rfl_lines
  /\ ( /\ pc = "returned"
       /\ PageLines(page_text)
            = <<<<"R", "F", "L", ":", " ", "r", "e", "l", "o", "c", "a", "t", "i", "o", "n">>, <<"f", "o", "r", " ", "f", "a", "m", "i", "l", "y", " ", "r", "e", "a", "s", "o", "n", "s">>, <<"C", "S", ":", " ", "5", "0", "0", "k">>>> )
       => /\ regular_extraction.RFL = <<"r", "e", "l", "o", "c", "a", "t", "i", "o", "n", " ", "f", "o", "r", " ", "f", "a", "m", "i", "l", "y", " ", "r", "e", "a", "s", "o", "n", "s">>
          /\ regular_extraction.CS = <<"5", "0", "0", "k">>

\* positions after a leading label where a later label [A-Z]+: starts
LaterLabels(line, lab) ==
  {e \in (Len(lab) + 1)..Len(line) : LabelAfter(line, e, UpperChars)}

\* the trimmed text between the leading label and the next label
TextBeforeNextLabel(line, lab) ==
  strip(SubSeq(line, Len(lab) + 1,
               (CHOOSE a \in LaterLabels(line, lab) :
                  \A b \in LaterLabels(line, lab) : a <= b) - 1))

LeadingFields ==
  {[field |-> "CS", labels |-> CSLabels],
   [field |-> "ES", labels |-> ESLabels],
   [field |-> "NoticePeriod", labels |-> NPLabels]}

\* C5 as stated: right after a line is scanned that begins with CS:, ES:, NP:
\* or NOTICE PERIOD: and holds a later label [A-Z]+:, the field of the leading
\* label is the trimmed text between the leading label and the next label
\* (CS: 500k ES: 600k gives CS 500k).
C5_LeadingLabelTruncated ==
  (Scanning /\ k >= 1) =>
    LET line == strip(text_lines[k])
    IN  \A lf \in LeadingFields : \A l \in 1..Len(lf.labels) :
          (LitAt(line, 1, lf.labels[l]) /\ LaterLabels(line, lf.labels[l]) # {})
            => scan.extracted[lf.field] = TextBeforeNextLabel(line, lf.labels[l])

\* C6 as stated: the returned record has the six keys, and when no plain line
\* and no emphasized line begins with CS:, ES:, NOTICE PERIOD:, NP: or RFL: its
\* CS, ES, Notice Period and RFL are all NA.
C6_NoLabelAllDefault ==
  pc = "returned" =>
    /\ DOMAIN result = {"FirstName", "CS", "ES", "NoticePeriod", "RFL", "Summary"}
    /\ ( /\ \A n \in 1..Len(PageLines(page_text)) :
              ~BeginsWith(PageLines(page_text)[n], AllLabels)
         /\ \A n \in 1..Len(BoldLines(bold_text)) :
              ~BeginsWith(BoldLines(bold_text)[n], AllLabels) )
       => \A f \in FieldNames : result[f] = NA

====
